---------------------------- MODULE Spec2Model ----------------------------
(***************************************************************************)
(* Model of backend/server.py: the request handlers of the timesheet,      *)
(* leave and reimbursement workflows over the document collections         *)
(* db.users, db.timesheets, db.leaves and db.reimbursements.               *)
(*                                                                         *)
(* A handler is one action when it issues a single database operation, or *)
(* a read followed by one write; create_timesheet and approve_leave are    *)
(* split at their awaits, the requests between two steps being kept in the *)
(* bag inflight.  Every step publishes in resp the HTTP answer it produced *)
(* (NoResp for a step that answers nothing yet).                           *)
(*                                                                         *)
(* Abstractions: ids are uuid4 values, modelled by one counter per         *)
(* collection that never repeats; leave days and balances are floats,      *)
(* modelled as integers; timestamps are not stored, a $set that carries    *)
(* datetime.now() is taken to modify every document it matches; of a       *)
(* document only the fields the handlers branch on are kept.               *)
(***************************************************************************)
EXTENDS Integers, FiniteSets, Sequences, Bags, TLC

\* ------------------------------------------------------------------ bounds
\* Timesheets, leaves and reimbursements ever inserted.
MaxTimesheets == 1
MaxLeaves == 1
MaxReimbursements == 1
\* approve_leave requests admitted past the lookup of the leave.
MaxApprovals == 2
\* Timesheets ever inserted where create_timesheet requests race each other.
MaxRacingTimesheets == 2
\* Users ever inserted by register and create_user, and where these race.
MaxUsers == 1
MaxRacingUsers == 2
\* PUT /users and DELETE /users requests that write.
MaxUserWrites == 1
\* Projects and invoices ever inserted.
MaxProjects == 1
MaxInvoices == 1
\* Document uploads to stored users and projects.
MaxUploads == 2

\* ------------------------------------------------------------- value sets
TimesheetIds == 1..MaxRacingTimesheets
LeaveIds == 1..MaxLeaves
ReimbursementIds == 1..MaxReimbursements
ProjectIds == 1..MaxProjects
InvoiceIds == 1..MaxInvoices
None == "none"
Weeks == {"2025-02-03", "2025-02-10"}
Days == {10, 20}
\* The allow-list of require_role(["admin", "manager"]).
AdminOrManager == {"admin", "manager"}
\* The allow-list of require_role(["admin"]).
AdminOnly == {"admin"}
Roles == {"admin", "manager", "employee"}
TimesheetStatuses == {"draft", "submitted", "approved", "rejected"}

VARIABLES
    users,           \* db.users: id -> [role, leave_balance, email, password, documents]
    timesheets,      \* db.timesheets: id -> [user_id, week_start, status, reviewed_by,
                     \* total_hours, entries]
    leaves,          \* db.leaves: id -> [user_id, days, status, reviewed_by]
    reimbursements,  \* db.reimbursements: id -> [user_id, status, reviewed_by]
    nextId,          \* collection -> the next fresh uuid of its documents
    inflight,        \* bag of requests suspended at an await between two db operations
    resp,            \* the answer produced by the last step
    approvals,       \* history: leave id -> approve_leave requests that read the leave
                     \* as pending, and approve_leave requests answered "success"
    userWrites,      \* history: PUT /users and DELETE /users requests carried out
    projects,        \* db.projects: id -> [project_code, description, documents]
    invoices,        \* db.invoices: id -> [project_id, notes]
    uploads          \* history: <<entity_type, entity_id>> -> the files whose upload to
                     \* the stored entity was answered, in the order of their $push

\* The collections and the history of the project, invoice and document
\* handlers.
projectVars == <<projects, invoices, uploads>>

vars ==
    <<users, timesheets, leaves, reimbursements, nextId, inflight, resp, approvals,
      userWrites, projectVars>>

\* ---------------------------------------------------------------- helpers
\* An answer names the handler, the subject of the caller's token, the path
\* id and the status code, and keeps of the request the days or (arg) the
\* other argument the handler branched on and (auth) what kind of token came
\* with it, and of the response (body) its payload.  A handler body runs for
\* valid tokens only.
NoResp ==
    [op |-> None, caller |-> None, id |-> 0, code |-> 0, days |-> 0,
     arg |-> None, body |-> None, auth |-> None]

Answer(op, caller, id, code) ==
    [op |-> op, caller |-> caller, id |-> id, code |-> code, days |-> 0,
     arg |-> None, body |-> None, auth |-> "valid"]

\* $set of a dict of updates on one document: listed fields are overwritten.
SetFields(doc, updates) ==
    [f \in DOMAIN doc |-> IF f \in DOMAIN updates THEN updates[f] ELSE doc[f]]

\* get_current_user: the token's subject must have a user record.
Authenticated(c) == c \in DOMAIN users

\* require_role: the role stored in the caller's record is in the allow-list.
HasRole(c, allowed) == users[c].role \in allowed

\* What becomes of an email dispatch: resend delivers it, resend raises, or no
\* RESEND_API_KEY is configured and nothing is sent.
MailOutcomes == {"sent", "failed", "skipped"}

\* Faulty variant of SendEmailNotification: the exception of a failed dispatch
\* reaches the handler.
SendEmailNotificationRaising(m) == IF m = "failed" THEN "raised" ELSE "returned"

\* send_email_notification: returns at once without a key, and catches and
\* logs whatever the dispatch raises.
SendEmailNotification(m) ==
    IF m = "skipped" THEN "returned"
    ELSE IF m = "failed" THEN "returned"
    ELSE "returned"

\* The tail of an approve or reject handler after its update: the owner is
\* looked up, notified if the record exists, and the request answered; an
\* exception out of the notification would make the answer a 500.
Dispatch(owner, m) == IF owner \in DOMAIN users THEN m ELSE "skipped"

AfterNotification(owner, m) ==
    IF owner \in DOMAIN users /\ SendEmailNotification(m) = "raised" THEN 500 ELSE 200

\* The request bodies PUT /timesheets/{id} is tried with: the dicts that set
\* one of the fields status and week_start.
TimesheetUpdates ==
    UNION { [D -> TimesheetStatuses \cup Weeks] : D \in {{"status"}, {"week_start"}} }

ValidTimesheetUpdates ==
    { u \in TimesheetUpdates :
        /\ ("status" \in DOMAIN u => u["status"] \in TimesheetStatuses)
        /\ ("week_start" \in DOMAIN u => u["week_start"] \in Weeks) }

\* A suspended request: its handler, the await it stands at, the caller, the
\* path id, the body's week_start, and the user_id and days of the leave it
\* has read.
Request(op, pc, caller, id, week, owner, days) ==
    [op |-> op, pc |-> pc, caller |-> caller, id |-> id,
     week_start |-> week, user_id |-> owner, days |-> days]

\* JSON values: a number, a string, null.
Num(n) == [num |-> n]
Str(t) == [str |-> t]
Null == [null |-> TRUE]

\* The total_hours and entries of the body of POST /timesheets in the specs
\* that do not vary them: eight hours on Monday for one project.
PlainContent ==
    [total_hours |-> Num(8), entries |-> <<[project_code |-> Str("P1"), mon |-> Num(8)]>>]

\* The suspended request of create_timesheet, with the content of its body.
TimesheetRequest(c, w, content) ==
    Request("create_timesheet", "insert", c, 0, w, c, 0) @@
    [total_hours |-> content.total_hours, entries |-> content.entries]

InflightOf(op) == { r \in BagToSet(inflight) : r.op = op }

RECURSIVE CountIn(_, _)
CountIn(S, b) ==
    IF S = {} THEN 0
    ELSE LET r == CHOOSE x \in S : TRUE IN CopiesIn(r, b) + CountIn(S \ {r}, b)

\* Timesheets inserted so far plus the inserts still to come.
TimesheetsClaimed ==
    (nextId.timesheets - 1) + CountIn(InflightOf("create_timesheet"), inflight)

\* ------------------------------------------------------------- timesheets
\* The find_one of create_timesheet: the caller c has a timesheet for week w.
HasTimesheetFor(c, w) ==
    \E t \in DOMAIN timesheets :
        timesheets[t].user_id = c /\ timesheets[t].week_start = w

\* Faulty variant of CreateTimesheetFind: a second create for the same week
\* reopens the stored timesheet as a draft instead of being refused.
CreateTimesheetFindReopening(c, w) ==
    /\ Authenticated(c)
    /\ IF HasTimesheetFor(c, w)
       THEN /\ timesheets' =
                   [t \in DOMAIN timesheets |->
                       IF timesheets[t].user_id = c /\ timesheets[t].week_start = w
                       THEN [timesheets[t] EXCEPT !.status = "draft"]
                       ELSE timesheets[t]]
            /\ resp' = [Answer("create_timesheet", c, 0, 200) EXCEPT !.arg = w]
            /\ UNCHANGED inflight
       ELSE /\ inflight' = inflight (+) SetToBag({
                   TimesheetRequest(c, w, PlainContent)})
            /\ resp' = NoResp
            /\ UNCHANGED timesheets
    /\ UNCHANGED <<users, leaves, reimbursements, nextId, approvals, userWrites, projectVars>>

\* POST /timesheets, up to the await of find_one: 400 if the caller already
\* has a timesheet for the week, else the request goes on to its insert.
CreateTimesheetFindWith(c, w, content) ==
    /\ Authenticated(c)
    /\ IF HasTimesheetFor(c, w)
       THEN /\ resp' = [Answer("create_timesheet", c, 0, 400) EXCEPT !.arg = w]
            /\ UNCHANGED inflight
       ELSE /\ inflight' = inflight (+) SetToBag({TimesheetRequest(c, w, content)})
            /\ resp' = NoResp
    /\ UNCHANGED <<users, timesheets, leaves, reimbursements, nextId, approvals, userWrites, projectVars>>

\* POST /timesheets with the plain content.
CreateTimesheetFind(c, w) == CreateTimesheetFindWith(c, w, PlainContent)

\* POST /timesheets, the insert_one and the answer.
CreateTimesheetInsert(r) ==
    /\ r \in InflightOf("create_timesheet")
    /\ inflight' = inflight (-) SetToBag({r})
    /\ timesheets' = timesheets @@
           (nextId.timesheets :> [user_id |-> r.caller, week_start |-> r.week_start,
                                  status |-> "draft", reviewed_by |-> None,
                                  total_hours |-> r.total_hours, entries |-> r.entries])
    /\ nextId' = [nextId EXCEPT !.timesheets = @ + 1]
    /\ resp' = [Answer("create_timesheet", r.caller, nextId.timesheets, 200)
                   EXCEPT !.arg = r.week_start]
    /\ UNCHANGED <<users, leaves, reimbursements, approvals, userWrites, projectVars>>

\* The guard of update_timesheet: a non-draft timesheet is closed to callers
\* that are neither admin nor manager.
UpdateTimesheetForbidden(c, t) ==
    timesheets[t].status # "draft" /\ ~HasRole(c, AdminOrManager)

\* PUT /timesheets/{id}
UpdateTimesheet(c, t, updates) ==
    /\ Authenticated(c)
    /\ IF t \notin DOMAIN timesheets
       THEN /\ resp' = Answer("update_timesheet", c, t, 404)
            /\ UNCHANGED timesheets
       ELSE IF UpdateTimesheetForbidden(c, t)
       THEN /\ resp' = Answer("update_timesheet", c, t, 403)
            /\ UNCHANGED timesheets
       ELSE /\ timesheets' = [timesheets EXCEPT ![t] = SetFields(@, updates)]
            /\ resp' = Answer("update_timesheet", c, t, 200)
    /\ UNCHANGED <<users, leaves, reimbursements, nextId, inflight, approvals, userWrites, projectVars>>

\* The filter of submit_timesheet's update_one: the id and the caller as owner.
SubmitMatches(c, t) == t \in DOMAIN timesheets /\ timesheets[t].user_id = c

\* POST /timesheets/{id}/submit
SubmitTimesheet(c, t) ==
    /\ Authenticated(c)
    /\ IF SubmitMatches(c, t)
       THEN /\ timesheets' = [timesheets EXCEPT ![t].status = "submitted"]
            /\ resp' = Answer("submit_timesheet", c, t, 200)
       ELSE /\ resp' = Answer("submit_timesheet", c, t, 404)
            /\ UNCHANGED timesheets
    /\ UNCHANGED <<users, leaves, reimbursements, nextId, inflight, approvals, userWrites, projectVars>>

\* approve_timesheet and reject_timesheet: role check, lookup, $set of the
\* status and the reviewer.
ReviewTimesheet(op, status, c, t, m) ==
    /\ Authenticated(c)
    /\ IF ~HasRole(c, AdminOrManager)
       THEN /\ resp' = Answer(op, c, t, 403)
            /\ UNCHANGED timesheets
       ELSE IF t \notin DOMAIN timesheets
       THEN /\ resp' = Answer(op, c, t, 404)
            /\ UNCHANGED timesheets
       ELSE /\ timesheets' = [timesheets EXCEPT ![t] =
                                 SetFields(@, [status |-> status, reviewed_by |-> c])]
            /\ resp' = [Answer(op, c, t, AfterNotification(timesheets[t].user_id, m))
                           EXCEPT !.arg = Dispatch(timesheets[t].user_id, m)]
    /\ UNCHANGED <<users, leaves, reimbursements, nextId, inflight, approvals, userWrites, projectVars>>

\* POST /timesheets/{id}/approve
ApproveTimesheet(c, t, m) == ReviewTimesheet("approve_timesheet", "approved", c, t, m)

\* POST /timesheets/{id}/reject
RejectTimesheet(c, t, m) == ReviewTimesheet("reject_timesheet", "rejected", c, t, m)

\* Faulty variant of MayDelete: an admin or manager may delete any document
\* in its initial status.
MayDeleteOrReviewer(c, doc, initial) ==
    (doc.user_id = c \/ HasRole(c, AdminOrManager)) /\ doc.status = initial

\* The guard of the three delete handlers: the caller's own document in its
\* initial status.
MayDelete(c, doc, initial) == doc.user_id = c /\ doc.status = initial

\* DELETE /timesheets/{id}
DeleteTimesheet(c, t) ==
    /\ Authenticated(c)
    /\ IF t \notin DOMAIN timesheets
       THEN /\ resp' = Answer("delete_timesheet", c, t, 404)
            /\ UNCHANGED timesheets
       ELSE IF ~MayDelete(c, timesheets[t], "draft")
       THEN /\ resp' = Answer("delete_timesheet", c, t, 403)
            /\ UNCHANGED timesheets
       ELSE /\ timesheets' = [x \in DOMAIN timesheets \ {t} |-> timesheets[x]]
            /\ resp' = Answer("delete_timesheet", c, t, 200)
    /\ UNCHANGED <<users, leaves, reimbursements, nextId, inflight, approvals, userWrites, projectVars>>

\* ----------------------------------------------------------------- leaves
\* Faulty variant of CreateLeave: the days are deducted when the leave is
\* created.
CreateLeaveDeducting(c, d) ==
    /\ Authenticated(c)
    /\ IF users[c].leave_balance < d
       THEN /\ resp' = [Answer("create_leave", c, 0, 400) EXCEPT !.days = d]
            /\ UNCHANGED <<users, leaves, nextId>>
       ELSE /\ nextId.leaves <= MaxLeaves
            /\ leaves' = leaves @@
                   (nextId.leaves :> [user_id |-> c, days |-> d,
                                      status |-> "pending", reviewed_by |-> None])
            /\ users' = [users EXCEPT ![c].leave_balance = @ - d]
            /\ nextId' = [nextId EXCEPT !.leaves = @ + 1]
            /\ resp' = [Answer("create_leave", c, nextId.leaves, 200) EXCEPT !.days = d]
    /\ UNCHANGED <<timesheets, reimbursements, inflight, approvals, userWrites, projectVars>>

\* Faulty variant of CreateLeave: a request for exactly the balance is refused.
CreateLeaveStrict(c, d) ==
    /\ Authenticated(c)
    /\ IF users[c].leave_balance <= d
       THEN /\ resp' = [Answer("create_leave", c, 0, 400) EXCEPT !.days = d]
            /\ UNCHANGED <<leaves, nextId>>
       ELSE /\ nextId.leaves <= MaxLeaves
            /\ leaves' = leaves @@
                   (nextId.leaves :> [user_id |-> c, days |-> d,
                                      status |-> "pending", reviewed_by |-> None])
            /\ nextId' = [nextId EXCEPT !.leaves = @ + 1]
            /\ resp' = [Answer("create_leave", c, nextId.leaves, 200) EXCEPT !.days = d]
    /\ UNCHANGED <<users, timesheets, reimbursements, inflight, approvals, userWrites, projectVars>>

\* POST /leaves: 400 if the caller's stored balance is below the days asked
\* for, else a pending leave of the caller is inserted.
CreateLeave(c, d) ==
    /\ Authenticated(c)
    /\ IF users[c].leave_balance < d
       THEN /\ resp' = [Answer("create_leave", c, 0, 400) EXCEPT !.days = d]
            /\ UNCHANGED <<leaves, nextId>>
       ELSE /\ nextId.leaves <= MaxLeaves
            /\ leaves' = leaves @@
                   (nextId.leaves :> [user_id |-> c, days |-> d,
                                      status |-> "pending", reviewed_by |-> None])
            /\ nextId' = [nextId EXCEPT !.leaves = @ + 1]
            /\ resp' = [Answer("create_leave", c, nextId.leaves, 200) EXCEPT !.days = d]
    /\ UNCHANGED <<users, timesheets, reimbursements, inflight, approvals, userWrites, projectVars>>

\* approve_leave requests that have read their leave and are answered
\* "success" or still on their way.
RECURSIVE SumSuccess(_)
SumSuccess(S) ==
    IF S = {} THEN 0
    ELSE LET x == CHOOSE y \in S : TRUE IN approvals[x].success + SumSuccess(S \ {x})

ApprovalsAdmitted ==
    SumSuccess(LeaveIds) + CountIn(InflightOf("approve_leave"), inflight)

\* POST /leaves/{id}/approve, up to the await of find_one: the role check, the
\* lookup of the leave (404 if absent), and the leave read kept by the request.
ApproveLeaveFind(c, l) ==
    /\ Authenticated(c)
    /\ IF ~HasRole(c, AdminOrManager)
       THEN /\ resp' = Answer("approve_leave", c, l, 403)
            /\ UNCHANGED <<inflight, approvals, userWrites>>
       ELSE IF l \notin DOMAIN leaves
       THEN /\ resp' = Answer("approve_leave", c, l, 404)
            /\ UNCHANGED <<inflight, approvals, userWrites>>
       ELSE /\ ApprovalsAdmitted < MaxApprovals
            /\ inflight' = inflight (+) SetToBag({
                   Request("approve_leave", "inc", c, l, None,
                           leaves[l].user_id, leaves[l].days)})
            /\ approvals' =
                   IF leaves[l].status = "pending"
                   THEN [approvals EXCEPT ![l].read_pending = @ + 1]
                   ELSE approvals
            /\ resp' = NoResp
    /\ UNCHANGED <<users, timesheets, leaves, reimbursements, nextId, userWrites, projectVars>>

\* Faulty variant of DeductBalance: a deduction that would make the balance
\* negative is skipped.
DeductBalanceFloor(us, u, d) ==
    IF u \in DOMAIN us /\ us[u].leave_balance >= d
    THEN [us EXCEPT ![u].leave_balance = @ - d]
    ELSE us

\* The $inc of approve_leave on the requester's document: no filter on the
\* leave's status, no effect when the user record is gone.
DeductBalance(us, u, d) ==
    IF u \in DOMAIN us THEN [us EXCEPT ![u].leave_balance = @ - d] ELSE us

\* POST /leaves/{id}/approve, the update_one that deducts the balance.
ApproveLeaveInc(r) ==
    /\ r \in InflightOf("approve_leave")
    /\ r.pc = "inc"
    /\ users' = DeductBalance(users, r.user_id, r.days)
    /\ inflight' = (inflight (-) SetToBag({r})) (+) SetToBag({[r EXCEPT !.pc = "set"]})
    /\ resp' = NoResp
    /\ UNCHANGED <<timesheets, leaves, reimbursements, nextId, approvals, userWrites, projectVars>>

\* POST /leaves/{id}/approve, the update_one of the leave and the answer: 500
\* when it modified nothing (the leave was deleted meanwhile), else the
\* notification and success.
ApproveLeaveSet(r, m) ==
    /\ r \in InflightOf("approve_leave")
    /\ r.pc = "set"
    /\ inflight' = inflight (-) SetToBag({r})
    /\ IF r.id \in DOMAIN leaves
       THEN /\ leaves' = [leaves EXCEPT ![r.id] =
                             SetFields(@, [status |-> "approved", reviewed_by |-> r.caller])]
            /\ approvals' =
                   IF AfterNotification(r.user_id, m) = 200
                   THEN [approvals EXCEPT ![r.id].success = @ + 1]
                   ELSE approvals
            /\ resp' = [Answer("approve_leave", r.caller, r.id,
                                  AfterNotification(r.user_id, m))
                           EXCEPT !.arg = Dispatch(r.user_id, m)]
       ELSE /\ resp' = Answer("approve_leave", r.caller, r.id, 500)
            /\ UNCHANGED <<leaves, approvals, userWrites>>
    /\ UNCHANGED <<users, timesheets, reimbursements, nextId, userWrites, projectVars>>

\* POST /leaves/{id}/reject
RejectLeave(c, l, m) ==
    /\ Authenticated(c)
    /\ IF ~HasRole(c, AdminOrManager)
       THEN /\ resp' = Answer("reject_leave", c, l, 403)
            /\ UNCHANGED leaves
       ELSE IF l \notin DOMAIN leaves
       THEN /\ resp' = Answer("reject_leave", c, l, 404)
            /\ UNCHANGED leaves
       ELSE /\ leaves' = [leaves EXCEPT ![l] =
                             SetFields(@, [status |-> "rejected", reviewed_by |-> c])]
            /\ resp' = [Answer("reject_leave", c, l, AfterNotification(leaves[l].user_id, m))
                           EXCEPT !.arg = Dispatch(leaves[l].user_id, m)]
    /\ UNCHANGED <<users, timesheets, reimbursements, nextId, inflight, approvals, userWrites, projectVars>>

\* DELETE /leaves/{id}
DeleteLeave(c, l) ==
    /\ Authenticated(c)
    /\ IF l \notin DOMAIN leaves
       THEN /\ resp' = Answer("delete_leave", c, l, 404)
            /\ UNCHANGED leaves
       ELSE IF ~MayDelete(c, leaves[l], "pending")
       THEN /\ resp' = Answer("delete_leave", c, l, 403)
            /\ UNCHANGED leaves
       ELSE /\ leaves' = [x \in DOMAIN leaves \ {l} |-> leaves[x]]
            /\ resp' = Answer("delete_leave", c, l, 200)
    /\ UNCHANGED <<users, timesheets, reimbursements, nextId, inflight, approvals, userWrites, projectVars>>

\* --------------------------------------------------------- reimbursements
\* POST /reimbursements and POST /reimbursements/with-file: a pending
\* reimbursement of the caller is inserted.
CreateReimbursement(c) ==
    /\ Authenticated(c)
    /\ reimbursements' = reimbursements @@
           (nextId.reimbursements :>
               [user_id |-> c, status |-> "pending", reviewed_by |-> None])
    /\ nextId' = [nextId EXCEPT !.reimbursements = @ + 1]
    /\ resp' = Answer("create_reimbursement", c, nextId.reimbursements, 200)
    /\ UNCHANGED <<users, timesheets, leaves, inflight, approvals, userWrites, projectVars>>

\* approve_reimbursement and reject_reimbursement: role check, lookup, $set
\* of the status and the reviewer.
ReviewReimbursement(op, status, c, x, m) ==
    /\ Authenticated(c)
    /\ IF ~HasRole(c, AdminOrManager)
       THEN /\ resp' = Answer(op, c, x, 403)
            /\ UNCHANGED reimbursements
       ELSE IF x \notin DOMAIN reimbursements
       THEN /\ resp' = Answer(op, c, x, 404)
            /\ UNCHANGED reimbursements
       ELSE /\ reimbursements' = [reimbursements EXCEPT ![x] =
                                     SetFields(@, [status |-> status, reviewed_by |-> c])]
            /\ resp' = [Answer(op, c, x, AfterNotification(reimbursements[x].user_id, m))
                           EXCEPT !.arg = Dispatch(reimbursements[x].user_id, m)]
    /\ UNCHANGED <<users, timesheets, leaves, nextId, inflight, approvals, userWrites, projectVars>>

\* Faulty variant of ApproveReimbursement: the reimbursement is marked paid.
ApproveReimbursementPaying(c, x, m) ==
    ReviewReimbursement("approve_reimbursement", "paid", c, x, m)

\* POST /reimbursements/{id}/approve
ApproveReimbursement(c, x, m) ==
    ReviewReimbursement("approve_reimbursement", "approved", c, x, m)

\* POST /reimbursements/{id}/reject
RejectReimbursement(c, x, m) ==
    ReviewReimbursement("reject_reimbursement", "rejected", c, x, m)

\* DELETE /reimbursements/{id}
DeleteReimbursement(c, x) ==
    /\ Authenticated(c)
    /\ IF x \notin DOMAIN reimbursements
       THEN /\ resp' = Answer("delete_reimbursement", c, x, 404)
            /\ UNCHANGED reimbursements
       ELSE IF ~MayDelete(c, reimbursements[x], "pending")
       THEN /\ resp' = Answer("delete_reimbursement", c, x, 403)
            /\ UNCHANGED reimbursements
       ELSE /\ reimbursements' = [y \in DOMAIN reimbursements \ {x} |-> reimbursements[y]]
            /\ resp' = Answer("delete_reimbursement", c, x, 200)
    /\ UNCHANGED <<users, timesheets, leaves, nextId, inflight, approvals, userWrites, projectVars>>

\* ------------------------------------------------------------ population
\* Two registered users, a manager and an employee; leave_balance is the
\* default of the User model.
DefaultLeaveBalance == 20

\* get_password_hash and verify_password: the bcrypt hash of a password, and
\* the check of a password against a stored hash.
Hash(p) == <<"bcrypt", p>>

Verify(p, h) == h = Hash(p)

Population ==
    ("lead" :> [role |-> "manager", leave_balance |-> DefaultLeaveBalance,
                email |-> "lead@corp", password |-> Hash("pw1"), documents |-> <<>>]) @@
    ("staff" :> [role |-> "employee", leave_balance |-> DefaultLeaveBalance,
                 email |-> "staff@corp", password |-> Hash("pw1"), documents |-> <<>>])

Callers == DOMAIN Population

Empty == [x \in {} |-> None]

Init ==
    /\ users = Population
    /\ timesheets = Empty
    /\ leaves = Empty
    /\ reimbursements = Empty
    /\ nextId = [timesheets |-> 1, leaves |-> 1, reimbursements |-> 1, users |-> 1,
                 projects |-> 1, invoices |-> 1]
    /\ inflight = EmptyBag
    /\ resp = NoResp
    /\ approvals = [l \in LeaveIds |-> [read_pending |-> 0, success |-> 0]]
    /\ userWrites = 0
    /\ projects = Empty
    /\ invoices = Empty
    /\ uploads = Empty

\* ------------------------------------------------------------------ lists
\* The length every list handler passes to to_list.
ListLimit == 1000

\* The filter of get_timesheets, get_leaves and get_reimbursements: every
\* document for an admin or manager, else the documents of the caller.
Listed(c, docs) ==
    IF HasRole(c, AdminOrManager)
    THEN DOMAIN docs
    ELSE {x \in DOMAIN docs : docs[x].user_id = c}

\* find(...).to_list(ListLimit): a cursor without a sort yields the matching
\* documents in the order of their insertion, which is the order of the ids
\* here, and to_list takes the first ListLimit of them.
ToList(matching) ==
    IF Cardinality(matching) <= ListLimit
    THEN matching
    ELSE {x \in matching : Cardinality({y \in matching : y <= x}) <= ListLimit}

\* A list handler: role test, find, to_list.
GetList(op, c, docs) ==
    /\ Authenticated(c)
    /\ resp' = [Answer(op, c, 0, 200) EXCEPT !.body = ToList(Listed(c, docs))]
    /\ UNCHANGED <<users, timesheets, leaves, reimbursements, nextId, inflight, approvals,
                   userWrites, projectVars>>

\* The collection each list handler reads.
Collections ==
    [get_timesheets |-> timesheets, get_leaves |-> leaves,
     get_reimbursements |-> reimbursements]

\* GET /timesheets
GetTimesheets(c) == GetList("get_timesheets", c, timesheets)

\* GET /leaves
GetLeaves(c) == GetList("get_leaves", c, leaves)

\* GET /reimbursements
GetReimbursements(c) == GetList("get_reimbursements", c, reimbursements)

\* ------------------------------------------------- users and authentication
\* The emails and passwords register, create_user and login are tried with.
Emails == {"staff@corp", "new@corp"}
Passwords == {"pw1", "pw2"}
\* The roles register and create_user are tried with; any string is accepted.
NewRoles == {"admin", "employee"}

\* The uuid of the n-th user inserted.
NewUserId(n) == "u" \o ToString(n)

\* The operations behind require_role(["admin"]), behind
\* require_role(["admin", "manager"]) and behind get_current_user alone.
AdminRoutes == {"create_user", "delete_user", "upload_user_document"}

ReviewerRoutes ==
    {"get_users", "update_user", "create_project", "update_project", "delete_project",
     "approve_timesheet", "reject_timesheet", "approve_leave", "reject_leave",
     "get_invoices", "create_invoice", "update_invoice", "delete_invoice",
     "approve_reimbursement", "reject_reimbursement",
     "get_timesheet_summary", "get_project_hours", "export_timesheets_csv",
     "export_leaves_csv", "upload_project_document"}

OpenRoutes ==
    {"get_me", "get_user", "get_projects", "get_project",
     "get_timesheets", "create_timesheet", "update_timesheet", "submit_timesheet",
     "delete_timesheet", "get_leaves", "create_leave", "delete_leave",
     "get_reimbursements", "create_reimbursement", "create_reimbursement_with_file",
     "download_reimbursement_receipt", "delete_reimbursement", "download_document"}

\* Faulty variant of Routes: delete_user is open to managers too.
RoutesLax ==
    [op \in AdminRoutes \cup ReviewerRoutes \cup OpenRoutes |->
        IF op \in AdminRoutes \ {"delete_user"} THEN AdminOnly
        ELSE IF op \in ReviewerRoutes \cup {"delete_user"} THEN AdminOrManager
        ELSE Roles]

\* The allow-list each protected route passes to its dependency.
Routes ==
    [op \in AdminRoutes \cup ReviewerRoutes \cup OpenRoutes |->
        IF op \in AdminRoutes THEN AdminOnly
        ELSE IF op \in ReviewerRoutes THEN AdminOrManager
        ELSE Roles]

\* The credentials a request comes with: a token this server signed for the
\* subject and that has not expired, or one that is expired, signed with
\* another key or no JWT at all, or no Authorization header.  A token holds
\* the role its subject had when it was issued, which PUT /users may have
\* changed since.
InvalidTokens == {"expired", "forged", "malformed", "missing"}

Credentials ==
    { [sub |-> u, kind |-> "valid", role |-> role] :
        u \in Callers \cup { NewUserId(n) : n \in 1..(nextId.users - 1) },
        role \in Roles }
    \cup { [sub |-> None, kind |-> k, role |-> None] : k \in InvalidTokens }

\* The credentials that hold the role stored now: no PUT /users has changed
\* the subject's role since the token was issued.
CurrentCredentials ==
    { tok \in Credentials :
        (tok.kind = "valid" /\ tok.sub \in DOMAIN users) => tok.role = users[tok.sub].role }

\* HTTPBearer and get_current_user: the status codes the request can be
\* refused with, none if the principal is resolved.  Without a header
\* HTTPBearer answers before get_current_user runs, 403 or 401 depending on
\* the fastapi release; jwt.decode raises JWTError on every other invalid
\* token; a subject without a user record is a 401.
GetCurrentUser(tok) ==
    IF tok.kind = "missing" THEN {403, 401}
    ELSE IF tok.kind \in InvalidTokens THEN {401}
    ELSE IF tok.sub \notin DOMAIN users THEN {401}
    ELSE {}

\* Faulty variant of RefusalCodes: the role of the token is tested.
RefusalCodesByTokenRole(op, tok) ==
    IF GetCurrentUser(tok) # {} THEN GetCurrentUser(tok)
    ELSE IF tok.role \notin Routes[op] THEN {403}
    ELSE {}

\* require_role on top of get_current_user, for the allow-list of route op:
\* the role tested is the one of the user record.
RefusalCodes(op, tok) ==
    IF GetCurrentUser(tok) # {} THEN GetCurrentUser(tok)
    ELSE IF users[tok.sub].role \notin Routes[op] THEN {403}
    ELSE {}

\* A request to a protected route that its dependency refuses: the handler
\* body does not run.
Refuse(op, tok) ==
    /\ \E code \in RefusalCodes(op, tok) :
          resp' = [Answer(op, tok.sub, 0, code) EXCEPT !.auth = tok.kind, !.arg = tok.role]
    /\ UNCHANGED <<users, timesheets, leaves, reimbursements, nextId, inflight, approvals,
                   userWrites, projectVars>>

\* The dependency of route op lets the caller with a valid token through.
Passes(op, c) == Authenticated(c) /\ HasRole(c, Routes[op])

EmailTaken(e) == \E u \in DOMAIN users : users[u].email = e

InsertingUsers == InflightOf("register") \cup InflightOf("create_user")

\* Users inserted so far plus the inserts still to come.
UsersClaimed == (nextId.users - 1) + CountIn(InsertingUsers, inflight)

\* UserCreate: the role of the body, "employee" when the body has none.
RoleOrDefault(role) == IF role = None THEN "employee" ELSE role

\* A request of register or create_user past its find_one: the handler, the
\* caller of create_user, and the body.
UserRequest(op, c, e, p, role) ==
    [op |-> op, pc |-> "insert", caller |-> c, email |-> e, password |-> p,
     role |-> RoleOrDefault(role)]

\* register and create_user up to the await of find_one: 400 if a user has
\* the email, else the request goes on to its insert.
FindUser(op, c, e, p, role) ==
    /\ IF EmailTaken(e)
       THEN /\ resp' = [Answer(op, c, 0, 400) EXCEPT !.arg = e]
            /\ UNCHANGED inflight
       ELSE /\ inflight' = inflight (+) SetToBag({UserRequest(op, c, e, p, role)})
            /\ resp' = NoResp
    /\ UNCHANGED <<users, timesheets, leaves, reimbursements, nextId, approvals, userWrites, projectVars>>

\* Faulty variant of InsertUser: every new user is stored as employee.
InsertUserAsEmployee(r) ==
    /\ inflight' = inflight (-) SetToBag({r})
    /\ users' = users @@
           (NewUserId(nextId.users) :>
               [role |-> "employee", leave_balance |-> DefaultLeaveBalance,
                email |-> r.email, password |-> Hash(r.password),
                documents |-> <<>>])
    /\ nextId' = [nextId EXCEPT !.users = @ + 1]
    /\ resp' = [Answer(r.op, r.caller, 0, 200)
                   EXCEPT !.arg = r.email, !.body = NewUserId(nextId.users)]
    /\ UNCHANGED <<timesheets, leaves, reimbursements, approvals, userWrites, projectVars>>

\* register and create_user, the insert_one and the answer: the password is
\* stored hashed, the balance is the model's default, the role is the body's.
InsertUser(r) ==
    /\ inflight' = inflight (-) SetToBag({r})
    /\ users' = users @@
           (NewUserId(nextId.users) :>
               [role |-> r.role, leave_balance |-> DefaultLeaveBalance,
                email |-> r.email, password |-> Hash(r.password),
                documents |-> <<>>])
    /\ nextId' = [nextId EXCEPT !.users = @ + 1]
    /\ resp' = [Answer(r.op, r.caller, 0, 200)
                   EXCEPT !.arg = r.email, !.body = NewUserId(nextId.users)]
    /\ UNCHANGED <<timesheets, leaves, reimbursements, approvals, userWrites, projectVars>>

\* POST /auth/register
RegisterFind(e, p, role) == FindUser("register", None, e, p, role)

RegisterInsert(r) == r \in InflightOf("register") /\ InsertUser(r)

\* POST /users
CreateUserFind(c, e, p, role) ==
    Passes("create_user", c) /\ FindUser("create_user", c, e, p, role)

CreateUserInsert(r) == r \in InflightOf("create_user") /\ InsertUser(r)

\* The request bodies PUT /users/{id} is tried with, by name.
UserUpdates ==
    ("email" :> [email |-> "staff@corp"]) @@
    ("password" :> [password |-> "pw2"]) @@
    ("role+leave_balance" :> [role |-> "admin", leave_balance |-> 5])

\* update_user: a password in the body is replaced by its hash.
HashPassword(updates) ==
    [k \in DOMAIN updates |-> IF k = "password" THEN Hash(updates[k]) ELSE updates[k]]

\* Faulty variant of ManagerFilter: role is among the fields a manager may
\* set.
ManagerFilterWithRole(role, updates) ==
    IF role = "manager"
    THEN [k \in DOMAIN updates \cap {"leave_balance", "role"} |-> updates[k]]
    ELSE updates

\* update_user: of a manager's body only leave_balance is kept.
ManagerFilter(role, updates) ==
    IF role = "manager"
    THEN [k \in DOMAIN updates \cap {"leave_balance"} |-> updates[k]]
    ELSE updates

\* PUT /users/{id}.  An empty $set is an error of older MongoDB servers and
\* matches without writing on newer ones.
UpdateUser(c, u, n) ==
    /\ Passes("update_user", c)
    /\ LET updates == ManagerFilter(users[c].role, HashPassword(UserUpdates[n]))
           answer(code) == [Answer("update_user", c, 0, code) EXCEPT !.arg = u, !.body = n]
       IN IF DOMAIN updates = {}
          THEN /\ \E code \in {500, IF u \in DOMAIN users THEN 200 ELSE 404} :
                     resp' = answer(code)
               /\ UNCHANGED <<users, userWrites>>
          ELSE IF u \notin DOMAIN users
          THEN /\ resp' = answer(404)
               /\ UNCHANGED <<users, userWrites>>
          ELSE /\ userWrites < MaxUserWrites
               /\ users' = [users EXCEPT ![u] = SetFields(@, updates)]
               /\ userWrites' = userWrites + 1
               /\ resp' = answer(200)
    /\ UNCHANGED <<timesheets, leaves, reimbursements, nextId, inflight, approvals, projectVars>>

\* DELETE /users/{id}
DeleteUser(c, u) ==
    /\ Passes("delete_user", c)
    /\ IF u \notin DOMAIN users
       THEN /\ resp' = [Answer("delete_user", c, 0, 404) EXCEPT !.arg = u]
            /\ UNCHANGED <<users, userWrites>>
       ELSE /\ userWrites < MaxUserWrites
            /\ users' = [x \in DOMAIN users \ {u} |-> users[x]]
            /\ userWrites' = userWrites + 1
            /\ resp' = [Answer("delete_user", c, 0, 200) EXCEPT !.arg = u]
    /\ UNCHANGED <<timesheets, leaves, reimbursements, nextId, inflight, approvals, projectVars>>

\* A user record as it is returned: without the password.
Public(doc) == [f \in DOMAIN doc \ {"password"} |-> doc[f]]

\* The one answer of login to credentials it does not accept.
InvalidCredentials ==
    [code |-> 401, detail |-> "Invalid email or password", sub |-> None, role |-> None,
     user |-> Empty]

\* Faulty variant of LoginResponses: an unknown email is told apart from a
\* wrong password.
LoginResponsesTelling(us, e, p) ==
    IF \A u \in DOMAIN us : us[u].email # e
    THEN {[InvalidCredentials EXCEPT !.detail = "User not found"]}
    ELSE { IF Verify(p, us[u].password)
           THEN [code |-> 200, detail |-> None, sub |-> u, role |-> us[u].role,
                 user |-> Public(us[u])]
           ELSE InvalidCredentials : u \in {x \in DOMAIN us : us[x].email = e} }

\* login: the answers to email e and password p.  find_one returns one of the
\* users with the email; the token is signed for its id and role.
LoginResponses(us, e, p) ==
    IF \A u \in DOMAIN us : us[u].email # e
    THEN {InvalidCredentials}
    ELSE { IF Verify(p, us[u].password)
           THEN [code |-> 200, detail |-> None, sub |-> u, role |-> us[u].role,
                 user |-> Public(us[u])]
           ELSE InvalidCredentials : u \in {x \in DOMAIN us : us[x].email = e} }

\* POST /auth/login
Login(e, p) ==
    /\ \E r \in LoginResponses(users, e, p) :
          resp' = [Answer("login", None, 0, r.code)
                      EXCEPT !.arg = [email |-> e, password |-> p], !.body = r,
                             !.auth = None]
    /\ UNCHANGED <<users, timesheets, leaves, reimbursements, nextId, inflight, approvals,
                   userWrites, projectVars>>

\* GET /auth/me with a token login signed for subject c.
GetMe(c) ==
    /\ Passes("get_me", c)
    /\ resp' = [Answer("get_me", c, 0, 200) EXCEPT !.body = Public(users[c])]
    /\ UNCHANGED <<users, timesheets, leaves, reimbursements, nextId, inflight, approvals,
                   userWrites, projectVars>>

\* A register or create_user request is taken up while it is bound to be
\* refused or there is room for the user it will insert.
RoomForUser(e, max) == EmailTaken(e) \/ UsersClaimed < max

\* The user and authentication handlers past the admission of a register
\* request.
UserOps ==
    \/ \E r \in BagToSet(inflight) : RegisterInsert(r)
    \/ \E c \in DOMAIN users, u \in DOMAIN users \cup {"u0"}, n \in DOMAIN UserUpdates :
          UpdateUser(c, u, n)
    \/ \E c \in DOMAIN users, u \in DOMAIN users \cup {"u0"} : DeleteUser(c, u)
    \/ \E e \in Emails, p \in Passwords : Login(e, p)
    \/ \E c \in DOMAIN users : GetMe(c)

UsersNext ==
    \/ \E e \in Emails, p \in Passwords, role \in NewRoles :
          RoomForUser(e, MaxUsers) /\ RegisterFind(e, p, role)
    \/ UserOps

\* As UsersNext, with room for two register or create_user requests at a
\* time, create_user being open to the admin the first of them registered.
UsersRaceNext ==
    \/ \E e \in Emails, p \in Passwords, role \in NewRoles :
          RoomForUser(e, MaxRacingUsers) /\ RegisterFind(e, p, role)
    \/ \E c \in DOMAIN users, e \in Emails, p \in Passwords, role \in NewRoles :
          RoomForUser(e, MaxRacingUsers) /\ CreateUserFind(c, e, p, role)
    \/ \E r \in BagToSet(inflight) : CreateUserInsert(r)
    \/ UserOps

\* The requests the dependencies of the routes refuse, among registrations
\* and deletions of users.
AccessNext ==
    \/ \E e \in Emails, role \in Roles \cup {None} :
          RoomForUser(e, MaxUsers) /\ RegisterFind(e, "pw1", role)
    \/ \E r \in BagToSet(inflight) : RegisterInsert(r)
    \/ \E c \in DOMAIN users, u \in DOMAIN users : DeleteUser(c, u)
    \/ \E tok \in CurrentCredentials, op \in DOMAIN Routes : Refuse(op, tok)

\* Registrations, PUT /users and DELETE /users, and the requests the
\* dependency of the admin routes refuses.
RolesNext ==
    \/ \E e \in Emails, role \in NewRoles :
          RoomForUser(e, MaxUsers) /\ RegisterFind(e, "pw1", role)
    \/ \E r \in BagToSet(inflight) : RegisterInsert(r)
    \/ \E c \in DOMAIN users, u \in DOMAIN users \cup {"u0"}, n \in DOMAIN UserUpdates :
          UpdateUser(c, u, n)
    \/ \E c \in DOMAIN users, u \in DOMAIN users \cup {"u0"} : DeleteUser(c, u)
    \/ \E tok \in Credentials, op \in AdminRoutes : Refuse(op, tok)

\* ---------------------------------------------------- projects and invoices
\* The project codes and descriptions, and the notes of an invoice, that the
\* requests are tried with.
ProjectCodes == {"P1", "P2"}
Descriptions == {"d1", "d2"}
Notes == {"n1", "n2"}

\* The request bodies PUT /projects/{id} and PUT /invoices/{id} are tried
\* with: the dicts that set the description, and the notes.
ProjectUpdates == { [description |-> d] : d \in Descriptions }
InvoiceUpdates == { [notes |-> n] : n \in Notes }

\* result.modified_count of update_one({"id": id}, {"$set": updates}): 1 if a
\* document has the id and the $set changes a value of it, else 0.
ModifiedCount(docs, id, updates) ==
    IF id \in DOMAIN docs /\ SetFields(docs[id], updates) # docs[id] THEN 1 ELSE 0

HasProjectCode(code) == \E p \in DOMAIN projects : projects[p].project_code = code

\* POST /projects, up to the await of find_one: 400 if a project has the
\* code, else the request goes on to its insert.
CreateProjectFind(c, code, d) ==
    /\ Passes("create_project", c)
    /\ IF HasProjectCode(code)
       THEN /\ resp' = [Answer("create_project", c, 0, 400) EXCEPT !.arg = code]
            /\ UNCHANGED inflight
       ELSE /\ inflight' = inflight (+) SetToBag({
                   [op |-> "create_project", pc |-> "insert", caller |-> c,
                    project_code |-> code, description |-> d]})
            /\ resp' = NoResp
    /\ UNCHANGED <<users, timesheets, leaves, reimbursements, nextId, approvals, userWrites,
                   projectVars>>

\* POST /projects, the insert_one and the answer: a project starts without
\* documents.
CreateProjectInsert(r) ==
    /\ r \in InflightOf("create_project")
    /\ inflight' = inflight (-) SetToBag({r})
    /\ projects' = projects @@
           (nextId.projects :>
               [project_code |-> r.project_code, description |-> r.description,
                documents |-> <<>>])
    /\ nextId' = [nextId EXCEPT !.projects = @ + 1]
    /\ resp' = [Answer("create_project", r.caller, nextId.projects, 200)
                   EXCEPT !.arg = r.project_code]
    /\ UNCHANGED <<users, timesheets, leaves, reimbursements, approvals, userWrites, invoices,
                   uploads>>

\* PUT /projects/{id}: 404 when the update modified nothing.
UpdateProject(c, p, updates) ==
    /\ Passes("update_project", c)
    /\ IF ModifiedCount(projects, p, updates) = 0
       THEN /\ resp' = [Answer("update_project", c, p, 404) EXCEPT !.body = updates]
            /\ UNCHANGED projects
       ELSE /\ projects' = [projects EXCEPT ![p] = SetFields(@, updates)]
            /\ resp' = [Answer("update_project", c, p, 200) EXCEPT !.body = updates]
    /\ UNCHANGED <<users, timesheets, leaves, reimbursements, nextId, inflight, approvals,
                   userWrites, invoices, uploads>>

\* DELETE /projects/{id}
DeleteProject(c, p) ==
    /\ Passes("delete_project", c)
    /\ IF p \notin DOMAIN projects
       THEN /\ resp' = Answer("delete_project", c, p, 404)
            /\ UNCHANGED projects
       ELSE /\ projects' = [x \in DOMAIN projects \ {p} |-> projects[x]]
            /\ resp' = Answer("delete_project", c, p, 200)
    /\ UNCHANGED <<users, timesheets, leaves, reimbursements, nextId, inflight, approvals,
                   userWrites, invoices, uploads>>

\* POST /invoices: the project_id of the body is stored as it is.
CreateInvoice(c, p, n) ==
    /\ Passes("create_invoice", c)
    /\ invoices' = invoices @@ (nextId.invoices :> [project_id |-> p, notes |-> n])
    /\ nextId' = [nextId EXCEPT !.invoices = @ + 1]
    /\ resp' = Answer("create_invoice", c, nextId.invoices, 200)
    /\ UNCHANGED <<users, timesheets, leaves, reimbursements, inflight, approvals, userWrites,
                   projects, uploads>>

\* PUT /invoices/{id}: 404 when the update modified nothing.
UpdateInvoice(c, i, updates) ==
    /\ Passes("update_invoice", c)
    /\ IF ModifiedCount(invoices, i, updates) = 0
       THEN /\ resp' = [Answer("update_invoice", c, i, 404) EXCEPT !.body = updates]
            /\ UNCHANGED invoices
       ELSE /\ invoices' = [invoices EXCEPT ![i] = SetFields(@, updates)]
            /\ resp' = [Answer("update_invoice", c, i, 200) EXCEPT !.body = updates]
    /\ UNCHANGED <<users, timesheets, leaves, reimbursements, nextId, inflight, approvals,
                   userWrites, projects, uploads>>

\* DELETE /invoices/{id}
DeleteInvoice(c, i) ==
    /\ Passes("delete_invoice", c)
    /\ IF i \notin DOMAIN invoices
       THEN /\ resp' = Answer("delete_invoice", c, i, 404)
            /\ UNCHANGED invoices
       ELSE /\ invoices' = [x \in DOMAIN invoices \ {i} |-> invoices[x]]
            /\ resp' = Answer("delete_invoice", c, i, 200)
    /\ UNCHANGED <<users, timesheets, leaves, reimbursements, nextId, inflight, approvals,
                   userWrites, projects, uploads>>

\* Projects inserted so far plus the inserts still to come.
ProjectsClaimed == (nextId.projects - 1) + CountIn(InflightOf("create_project"), inflight)

\* The project and invoice handlers.
CatalogueNext ==
    \/ \E c \in Callers, code \in ProjectCodes, d \in Descriptions :
          /\ HasProjectCode(code) \/ ProjectsClaimed < MaxProjects
          /\ CreateProjectFind(c, code, d)
    \/ \E r \in BagToSet(inflight) : CreateProjectInsert(r)
    \/ \E c \in Callers, p \in ProjectIds, u \in ProjectUpdates : UpdateProject(c, p, u)
    \/ \E c \in Callers, p \in ProjectIds : DeleteProject(c, p)
    \/ \E c \in Callers, p \in ProjectIds, n \in Notes :
          nextId.invoices <= MaxInvoices /\ CreateInvoice(c, p, n)
    \/ \E c \in Callers, i \in InvoiceIds, u \in InvoiceUpdates : UpdateInvoice(c, i, u)
    \/ \E c \in Callers, i \in InvoiceIds : DeleteInvoice(c, i)

\* ---------------------------------------------------------------- documents
\* Bytes are numbers below 256, a file content is a sequence of bytes, a file
\* name a sequence of code points, and base64 text a sequence of the
\* alphabet's values 0..63 and Pad.
Pad == 64

\* One group of base64.b64encode: up to three bytes become four characters.
EncodeGroup(b) ==
    IF Len(b) = 1
    THEN <<b[1] \div 4, (b[1] % 4) * 16, Pad, Pad>>
    ELSE IF Len(b) = 2
    THEN <<b[1] \div 4, (b[1] % 4) * 16 + b[2] \div 16, (b[2] % 16) * 4, Pad>>
    ELSE <<b[1] \div 4, (b[1] % 4) * 16 + b[2] \div 16,
           (b[2] % 16) * 4 + b[3] \div 64, b[3] % 64>>

\* base64.b64encode(content).decode('utf-8')
RECURSIVE B64Encode(_)
B64Encode(b) ==
    IF Len(b) = 0 THEN <<>>
    ELSE IF Len(b) <= 3 THEN EncodeGroup(b)
    ELSE EncodeGroup(SubSeq(b, 1, 3)) \o B64Encode(SubSeq(b, 4, Len(b)))

\* One group of base64.b64decode: four characters become up to three bytes.
DecodeGroup(t) ==
    IF t[3] = Pad
    THEN <<t[1] * 4 + t[2] \div 16>>
    ELSE IF t[4] = Pad
    THEN <<t[1] * 4 + t[2] \div 16, (t[2] % 16) * 16 + t[3] \div 4>>
    ELSE <<t[1] * 4 + t[2] \div 16, (t[2] % 16) * 16 + t[3] \div 4,
           (t[3] % 4) * 64 + t[4]>>

\* base64.b64decode(data)
RECURSIVE B64Decode(_)
B64Decode(t) ==
    IF Len(t) = 0 THEN <<>>
    ELSE DecodeGroup(SubSeq(t, 1, 4)) \o B64Decode(SubSeq(t, 5, Len(t)))

\* The files the uploads are tried with: of one, two and four bytes, the
\* second under a name in Cyrillic letters.
Files ==
    { [filename |-> <<97, 46, 116>>, content_type |-> "text/plain", content |-> <<77>>],
      [filename |-> <<1086, 46, 116>>, content_type |-> "text/plain",
       content |-> <<255, 16>>],
      [filename |-> <<98, 46, 112>>, content_type |-> "application/pdf",
       content |-> <<37, 80, 68, 70>>] }

\* The document entry an upload handler builds of a file.
DocumentOf(file) ==
    [filename |-> file.filename, content_type |-> file.content_type,
     data |-> B64Encode(file.content)]

\* $push of a document on the entity with the id, if there is one.
PushDocument(docs, id, document) ==
    IF id \in DOMAIN docs
    THEN [docs EXCEPT ![id].documents = Append(@, document)]
    ELSE docs

\* The history of the uploads answered for stored entities.
Uploaded(key, stored, file) ==
    IF ~stored THEN uploads
    ELSE IF key \in DOMAIN uploads THEN [uploads EXCEPT ![key] = Append(@, file)]
    ELSE uploads @@ (key :> <<file>>)

\* POST /upload/user/{id}/document: answered 200 whether or not a user has
\* the id.
UploadUserDocument(c, u, file) ==
    /\ Passes("upload_user_document", c)
    /\ users' = PushDocument(users, u, DocumentOf(file))
    /\ uploads' = Uploaded(<<"user", u>>, u \in DOMAIN users, file)
    /\ resp' = [Answer("upload_user_document", c, 0, 200)
                   EXCEPT !.arg = <<"user", u>>, !.body = file]
    /\ UNCHANGED projects
    /\ UNCHANGED <<timesheets, leaves, reimbursements, nextId, inflight, approvals,
                   userWrites, invoices>>

\* POST /upload/project/{id}/document: answered 200 whether or not a project
\* has the id.
UploadProjectDocument(c, p, file) ==
    /\ Passes("upload_project_document", c)
    /\ projects' = PushDocument(projects, p, DocumentOf(file))
    /\ uploads' = Uploaded(<<"project", p>>, p \in DOMAIN projects, file)
    /\ resp' = [Answer("upload_project_document", c, 0, 200)
                   EXCEPT !.arg = <<"project", p>>, !.body = file]
    /\ UNCHANGED users
    /\ UNCHANGED <<timesheets, leaves, reimbursements, nextId, inflight, approvals,
                   userWrites, invoices>>

\* The documents list download_document finds for an entity, empty if the
\* entity is absent: users for entity_type "user", else projects.
DocumentsOf(key) ==
    IF key[1] = "user"
    THEN IF key[2] \in DOMAIN users THEN users[key[2]].documents ELSE <<>>
    ELSE IF key[2] \in DOMAIN projects THEN projects[key[2]].documents ELSE <<>>

\* str.encode("latin-1") of a header value succeeds.
Latin1(name) == \A i \in 1..Len(name) : name[i] < 256

\* download_document: the status code, and the file of a 200.  The guard
\* refuses an empty list and an index at or past its end; documents[doc_index]
\* counts a negative index from the end and raises IndexError before the
\* start; the filename goes into a response header, which is encoded as
\* latin-1.
Download(docs, index) ==
    IF Len(docs) = 0 \/ index >= Len(docs)
    THEN [code |-> 404, file |-> None]
    ELSE IF index < -Len(docs)
    THEN [code |-> 500, file |-> None]
    ELSE LET document == docs[IF index >= 0 THEN index + 1 ELSE Len(docs) + index + 1]
         IN IF ~Latin1(document.filename)
            THEN [code |-> 500, file |-> None]
            ELSE [code |-> 200,
                  file |-> [filename |-> document.filename,
                            content_type |-> document.content_type,
                            content |-> B64Decode(document.data)]]

\* GET /download/document/{entity_type}/{entity_id}/{doc_index}
DownloadDocument(c, key, index) ==
    /\ Passes("download_document", c)
    /\ LET answer == Download(DocumentsOf(key), index)
       IN resp' = [Answer("download_document", c, index, answer.code)
                      EXCEPT !.arg = key, !.body = answer.file]
    /\ UNCHANGED <<users, projects, uploads>>
    /\ UNCHANGED <<timesheets, leaves, reimbursements, nextId, inflight, approvals,
                   userWrites, invoices>>

\* Uploads answered for stored entities so far.
RECURSIVE UploadCount(_)
UploadCount(keys) ==
    IF keys = {} THEN 0
    ELSE LET k == CHOOSE x \in keys : TRUE
         IN Len(uploads[k]) + UploadCount(keys \ {k})

\* The entities the uploads and downloads are addressed to: the employee and
\* a user id nobody has, and the projects.
Entities == {<<"user", "staff">>, <<"user", "u0">>} \cup {<<"project", p>> : p \in ProjectIds}

\* The upload and download handlers, with the registration of an admin and
\* the creation and deletion of a project.
DocumentsNext ==
    \/ RoomForUser("new@corp", MaxUsers) /\ RegisterFind("new@corp", "pw1", "admin")
    \/ \E r \in BagToSet(inflight) : RegisterInsert(r)
    \/ \E c \in DOMAIN users :
          /\ HasProjectCode("P1") \/ ProjectsClaimed < MaxProjects
          /\ CreateProjectFind(c, "P1", "d1")
    \/ \E r \in BagToSet(inflight) : CreateProjectInsert(r)
    \/ \E c \in DOMAIN users, p \in ProjectIds : DeleteProject(c, p)
    \/ \E c \in DOMAIN users, key \in Entities, file \in Files :
          /\ key[1] = "user"
          /\ UploadCount(DOMAIN uploads) < MaxUploads
          /\ UploadUserDocument(c, key[2], file)
    \/ \E c \in DOMAIN users, key \in Entities, file \in Files :
          /\ key[1] = "project"
          /\ UploadCount(DOMAIN uploads) < MaxUploads
          /\ UploadProjectDocument(c, key[2], file)
    \/ \E c \in DOMAIN users, key \in Entities, index \in (-MaxUploads - 1)..MaxUploads :
          DownloadDocument(c, key, index)

\* ------------------------------------------------------------------ reports
\* The bodies POST /timesheets is tried with for the reports: hours as a
\* number, null and a numeric string with the other days missing; an entry
\* without project code and an entry whose hours are no number; two projects.
ReportContents ==
    { [total_hours |-> Num(12),
       entries |-> <<[project_code |-> Str("P1"), mon |-> Num(8), tue |-> Null,
                      wed |-> Str("4")]>>],
      [total_hours |-> Num(8),
       entries |-> <<[project_code |-> Str(""), mon |-> Num(8)],
                     [project_code |-> Str("P2"), fri |-> Str("n/a")]>>],
      [total_hours |-> Num(8),
       entries |-> <<[project_code |-> Str("P1"), mon |-> Num(4)],
                     [project_code |-> Str("P2"), fri |-> Num(4)]>>] }

\* The request bodies PUT /timesheets/{id} is tried with for the reports.
HoursUpdates == { [total_hours |-> Str("n/a")] }

\* The approved timesheets a report reads.
ApprovedListed == ToList({t \in DOMAIN timesheets : timesheets[t].status = "approved"})

\* 0 + x and x + y of Python succeed on numbers.
IsNumber(v) == "num" \in DOMAIN v

\* The strings float() converts, with their values.
Numerals == ("4" :> 4) @@ ("8" :> 8)

\* v or 0, for the values None, 0 and "" of Python that count as false.
OrZero(v) == IF v \in {Null, Num(0), Str("")} THEN Num(0) ELSE v

\* float(v) raises ValueError or TypeError.
FloatRaises(v) == ~IsNumber(v) /\ ~("str" \in DOMAIN v /\ v.str \in DOMAIN Numerals)

\* float(v) of a value it converts.
Float(v) == IF IsNumber(v) THEN v.num ELSE Numerals[v.str]

WeekDays == {"mon", "tue", "wed", "thu", "fri"}

\* entry.get(day, 0) or 0
DayValue(entry, day) == IF day \in DOMAIN entry THEN OrZero(entry[day]) ELSE Num(0)

\* The sum of the function f over the set S.
RECURSIVE Sum(_, _)
Sum(f, S) ==
    IF S = {} THEN 0
    ELSE LET x == CHOOSE y \in S : TRUE IN f[x] + Sum(f, S \ {x})

\* The entries get_project_hours counts: those of the timesheets read whose
\* project_code is there and not empty, as <<timesheet, position>>.
CountedEntries ==
    { e \in UNION { {<<t, i>> : i \in 1..Len(timesheets[t].entries)} : t \in ApprovedListed } :
        LET entry == timesheets[e[1]].entries[e[2]]
        IN "project_code" \in DOMAIN entry /\ OrZero(entry.project_code) # Num(0) }

\* get_timesheet_summary: 500 when a total_hours read is no number, else per
\* user of a timesheet read the sum of total_hours and the number of weeks.
TimesheetSummary ==
    IF \E t \in ApprovedListed : ~IsNumber(timesheets[t].total_hours)
    THEN [code |-> 500, body |-> None]
    ELSE [code |-> 200,
          body |-> [u \in {timesheets[t].user_id : t \in ApprovedListed} |->
                      LET own == {t \in ApprovedListed : timesheets[t].user_id = u}
                          hours == [t \in own |-> timesheets[t].total_hours.num]
                      IN [total_hours |-> Sum(hours, own), weeks |-> Cardinality(own)]]]

\* get_project_hours: 500 when float() raises on a day of a counted entry,
\* else per project code the sum of the five days of its counted entries.
ProjectHours ==
    LET entryOf(e) == timesheets[e[1]].entries[e[2]]
    IN IF \E e \in CountedEntries, d \in WeekDays : FloatRaises(DayValue(entryOf(e), d))
       THEN [code |-> 500, body |-> None]
       ELSE [code |-> 200,
             body |-> [code \in {entryOf(e).project_code.str : e \in CountedEntries} |->
                         LET of == {e \in CountedEntries : entryOf(e).project_code.str = code}
                             daily ==
                                 [e \in of |->
                                    Sum([d \in WeekDays |-> Float(DayValue(entryOf(e), d))],
                                        WeekDays)]
                         IN Sum(daily, of)]]

\* GET /reports/timesheet-summary
GetTimesheetSummary(c) ==
    /\ Passes("get_timesheet_summary", c)
    /\ resp' = [Answer("get_timesheet_summary", c, 0, TimesheetSummary.code)
                   EXCEPT !.body = TimesheetSummary.body]
    /\ UNCHANGED <<users, timesheets, leaves, reimbursements, nextId, inflight, approvals,
                   userWrites, projectVars>>

\* GET /reports/project-hours
GetProjectHours(c) ==
    /\ Passes("get_project_hours", c)
    /\ resp' = [Answer("get_project_hours", c, 0, ProjectHours.code)
                   EXCEPT !.body = ProjectHours.body]
    /\ UNCHANGED <<users, timesheets, leaves, reimbursements, nextId, inflight, approvals,
                   userWrites, projectVars>>

\* ----------------------------------------------------------- next-state
\* The timesheet handlers past the admission of a create_timesheet request.
TimesheetOps ==
    \/ \E r \in BagToSet(inflight) : CreateTimesheetInsert(r)
    \/ \E c \in Callers, t \in TimesheetIds, u \in ValidTimesheetUpdates :
          UpdateTimesheet(c, t, u)
    \/ \E c \in Callers, t \in TimesheetIds : SubmitTimesheet(c, t)
    \/ \E c \in Callers, t \in TimesheetIds, m \in MailOutcomes : ApproveTimesheet(c, t, m)
    \/ \E c \in Callers, t \in TimesheetIds, m \in MailOutcomes : RejectTimesheet(c, t, m)
    \/ \E c \in Callers, t \in TimesheetIds : DeleteTimesheet(c, t)

\* A create_timesheet request is taken up while it is bound to be refused or
\* there is room for the timesheet it will insert.
RoomFor(c, w, max) == HasTimesheetFor(c, w) \/ TimesheetsClaimed < max

TimesheetNext ==
    \/ \E c \in Callers, w \in Weeks :
          RoomFor(c, w, MaxTimesheets) /\ CreateTimesheetFind(c, w)
    \/ TimesheetOps

\* As TimesheetNext, with room for two create_timesheet requests at a time.
TimesheetRaceNext ==
    \/ \E c \in Callers, w \in Weeks :
          RoomFor(c, w, MaxRacingTimesheets) /\ CreateTimesheetFind(c, w)
    \/ TimesheetOps

\* The two reports and the handlers that bring timesheets to the statuses
\* they read, create_timesheet requests racing.
ReportsNext ==
    \/ \E c \in Callers, w \in Weeks, content \in ReportContents :
          RoomFor(c, w, MaxRacingTimesheets) /\ CreateTimesheetFindWith(c, w, content)
    \/ \E r \in BagToSet(inflight) : CreateTimesheetInsert(r)
    \/ \E c \in Callers, t \in TimesheetIds, u \in HoursUpdates : UpdateTimesheet(c, t, u)
    \/ \E c \in Callers, t \in TimesheetIds : ApproveTimesheet(c, t, "sent")
    \/ \E c \in Callers, t \in TimesheetIds : RejectTimesheet(c, t, "sent")
    \/ \E c \in Callers : GetTimesheetSummary(c)
    \/ \E c \in Callers : GetProjectHours(c)

LeaveNext ==
    \/ \E c \in Callers, d \in Days : CreateLeave(c, d)
    \/ \E c \in Callers, l \in LeaveIds : ApproveLeaveFind(c, l)
    \/ \E r \in BagToSet(inflight) : ApproveLeaveInc(r)
    \/ \E r \in BagToSet(inflight), m \in MailOutcomes : ApproveLeaveSet(r, m)
    \/ \E c \in Callers, l \in LeaveIds, m \in MailOutcomes : RejectLeave(c, l, m)
    \/ \E c \in Callers, l \in LeaveIds : DeleteLeave(c, l)

\* A create_reimbursement request is taken up while there is room for the
\* reimbursement it will insert.
RoomForReimbursement(max) == nextId.reimbursements <= max

ReimbursementNext ==
    \/ \E c \in Callers : RoomForReimbursement(MaxReimbursements) /\ CreateReimbursement(c)
    \/ \E c \in Callers, x \in ReimbursementIds, m \in MailOutcomes :
          ApproveReimbursement(c, x, m)
    \/ \E c \in Callers, x \in ReimbursementIds, m \in MailOutcomes :
          RejectReimbursement(c, x, m)
    \/ \E c \in Callers, x \in ReimbursementIds : DeleteReimbursement(c, x)

\* Reimbursements ever inserted where lists are cut: one more than to_list
\* takes.
MaxListed == ListLimit + 1

\* Employees file reimbursements up to MaxListed; those of a reviewer are
\* among the first MaxReimbursements.
RoomToList(c) ==
    RoomForReimbursement(IF HasRole(c, AdminOrManager) THEN MaxReimbursements ELSE MaxListed)

\* No handler of one workflow reads or writes the collection of another, so
\* the three are explored one at a time: a workflow steps only while the
\* other two collections have never held a document.
Untouched(k) ==
    /\ nextId[k] = 1
    /\ k = "timesheets" => InflightOf("create_timesheet") = {}

Next ==
    \/ Untouched("leaves") /\ Untouched("reimbursements") /\ TimesheetNext
    \/ Untouched("timesheets") /\ Untouched("reimbursements") /\ LeaveNext
    \/ Untouched("timesheets") /\ Untouched("leaves") /\ ReimbursementNext

\* The list handlers of the three workflows and the handlers that insert the
\* documents listed.
ListNext ==
    \/ /\ Untouched("leaves") /\ Untouched("reimbursements")
       /\ \/ \E c \in Callers, w \in Weeks :
                RoomFor(c, w, MaxTimesheets) /\ CreateTimesheetFind(c, w)
          \/ \E r \in BagToSet(inflight) : CreateTimesheetInsert(r)
          \/ \E c \in Callers : GetTimesheets(c)
    \/ /\ Untouched("timesheets") /\ Untouched("reimbursements")
       /\ \/ \E c \in Callers, d \in Days : CreateLeave(c, d)
          \/ \E c \in Callers : GetLeaves(c)
    \/ /\ Untouched("timesheets") /\ Untouched("leaves")
       /\ \/ \E c \in Callers : RoomToList(c) /\ CreateReimbursement(c)
          \/ \E c \in Callers : GetReimbursements(c)

\* Every handler of the three workflows.
Spec == Init /\ [][Next]_vars

\* The timesheet handlers alone.
SpecTimesheet == Init /\ [][TimesheetNext]_vars

\* The timesheet handlers alone, create_timesheet requests racing.
SpecTimesheetRace == Init /\ [][TimesheetRaceNext]_vars

\* register, login, get_me, update_user and delete_user alone.
SpecUsers == Init /\ [][UsersNext]_vars

\* The user and authentication handlers alone, register and create_user
\* requests racing.
SpecUsersRace == Init /\ [][UsersRaceNext]_vars

\* The refusals of every route while users are registered and deleted.
SpecAccess == Init /\ [][AccessNext]_vars

\* The admin routes while roles are changed through PUT /users.
SpecRoles == Init /\ [][RolesNext]_vars

\* The project and invoice handlers alone.
SpecCatalogue == Init /\ [][CatalogueNext]_vars

\* The document handlers and what brings about their admin and project.
SpecDocuments == Init /\ [][DocumentsNext]_vars

\* The reports over the timesheets.
SpecReports == Init /\ [][ReportsNext]_vars

\* The leave handlers alone.
SpecLeave == Init /\ [][LeaveNext]_vars

\* The list handlers and the inserts.
SpecList == Init /\ [][ListNext]_vars

\* ------------------------------------------------------------------ claims
\* Timesheets, leaves, reimbursements present before and after a step.
Kept(old, new) == DOMAIN old \cap DOMAIN new

CallerRole == users[resp'.caller].role

\* C1: a timesheet goes from draft to submitted only by a request of its
\* owner, becomes approved or rejected only by an approve/reject request of
\* an admin or manager, and a submit by a non-owner changes nothing.
C1_TimesheetTransitionsByRightPrincipal ==
    [][\A t \in Kept(timesheets, timesheets') :
         LET old == timesheets[t].status
             new == timesheets'[t].status
         IN /\ (old = "draft" /\ new = "submitted")
                  => resp'.caller = timesheets[t].user_id
            /\ (new \in {"approved", "rejected"} /\ new # old)
                  => /\ resp'.op \in {"approve_timesheet", "reject_timesheet"}
                     /\ CallerRole \in AdminOrManager
            /\ (resp'.op = "submit_timesheet" /\ resp'.caller # timesheets[t].user_id)
                  => timesheets'[t] = timesheets[t]]_vars

\* C2: every change of a timesheet's status is draft -> submitted,
\* submitted -> approved or submitted -> rejected.
ForwardTimesheetSteps ==
    {<<"draft", "submitted">>, <<"submitted", "approved">>, <<"submitted", "rejected">>}

C2_TimesheetStatusOnlyForward ==
    [][\A t \in Kept(timesheets, timesheets') :
         timesheets'[t].status # timesheets[t].status
            => <<timesheets[t].status, timesheets'[t].status>> \in ForwardTimesheetSteps]_vars

\* C3: no user's leave_balance is ever negative.
C3_LeaveBalanceNeverNegative ==
    \A u \in DOMAIN users : users[u].leave_balance >= 0

\* Days of the leaves of user u, each counted once per approve_leave that was
\* answered "success" or has made its deduction and not answered yet.
RECURSIVE DaysCharged(_, _)
DaysCharged(u, S) ==
    IF S = {} THEN 0
    ELSE LET l == CHOOSE x \in S : TRUE
             waiting == CountIn({q \in InflightOf("approve_leave") :
                                    q.id = l /\ q.pc = "set"}, inflight)
         IN (IF leaves[l].user_id = u
             THEN leaves[l].days * (approvals[l].success + waiting)
             ELSE 0) + DaysCharged(u, S \ {l})

NoLeaveDeleted == Cardinality(DOMAIN leaves) = nextId.leaves - 1

\* C4: every approve_leave answered "success" has made its own deduction,
\* whatever the other requests on the same leave did: while no leave was
\* deleted, a user's balance is the initial one minus the days of each leave
\* times the number of approvals of it (answered, or deducted and on their
\* way), so two successes on one leave cost twice its days.
C4_EachApprovalDeducts ==
    NoLeaveDeleted =>
        \A u \in DOMAIN users :
            users[u].leave_balance =
                Population[u].leave_balance - DaysCharged(u, DOMAIN leaves)

\* Two requests read the same leave as pending, both were answered "success"
\* and the owner has lost twice the days.
C4_TwoConcurrentSuccesses ==
    \E l \in DOMAIN leaves :
        /\ approvals[l].read_pending = 2
        /\ approvals[l].success = 2
        /\ \A q \in InflightOf("approve_leave") : q.id # l
        /\ resp.op = "approve_leave" /\ resp.id = l /\ resp.code = 200
        /\ users[leaves[l].user_id].leave_balance =
               Population[leaves[l].user_id].leave_balance - 2 * leaves[l].days

BalanceChanged == {u \in DOMAIN users : users'[u].leave_balance # users[u].leave_balance}

\* C5: create_leave, reject_leave and delete_leave change no balance; a
\* balance changes only by the deduction of an approve_leave request, which
\* lowers the balance of the leave's owner by the leave's days and no other.
C5_BalanceChangesOnlyAtApproval ==
    [][/\ resp'.op \in {"create_leave", "reject_leave", "delete_leave"}
            => BalanceChanged = {}
       /\ BalanceChanged # {}
            => \E r \in InflightOf("approve_leave") :
                  /\ r.pc = "inc"
                  /\ BalanceChanged = {r.user_id}
                  /\ users'[r.user_id].leave_balance = users[r.user_id].leave_balance - r.days
                  /\ r.id \in DOMAIN leaves
                        => r.user_id = leaves[r.id].user_id /\ r.days = leaves[r.id].days]_vars

\* An approve_leave was answered "success": the owner has lost the days, the
\* other user nothing.
C5_ApprovedOnce ==
    \E l \in DOMAIN leaves :
        /\ resp.op = "approve_leave" /\ resp.id = l /\ resp.code = 200
        /\ approvals[l].success = 1
        /\ leaves[l].user_id = "staff"
        /\ users["staff"].leave_balance = DefaultLeaveBalance - leaves[l].days
        /\ users["lead"].leave_balance = DefaultLeaveBalance

\* C6: create_leave with days above the caller's balance is answered 400 and
\* stores nothing; otherwise it is answered 200 and stores one pending leave
\* of the caller with these days.
C6_CreateLeaveChecksBalance ==
    [][resp'.op = "create_leave" =>
         LET c == resp'.caller
             d == resp'.days
             l == resp'.id
         IN IF d > users[c].leave_balance
            THEN resp'.code = 400 /\ leaves' = leaves
            ELSE /\ resp'.code = 200
                 /\ l \notin DOMAIN leaves
                 /\ leaves' = leaves @@
                        (l :> [user_id |-> c, days |-> d,
                               status |-> "pending", reviewed_by |-> None])]_vars

\* A create_leave was refused for days above the caller's balance.
C6_Refused ==
    /\ resp.op = "create_leave"
    /\ resp.code = 400
    /\ resp.days > users[resp.caller].leave_balance

DeleteOutcome(op, docs, docsAfter, initial) ==
    /\ (resp'.op = op /\ resp'.id \in DOMAIN docs) =>
          IF docs[resp'.id].user_id = resp'.caller /\ docs[resp'.id].status = initial
          THEN /\ resp'.code = 200
               /\ docsAfter = [x \in DOMAIN docs \ {resp'.id} |-> docs[x]]
          ELSE /\ resp'.code = 403
               /\ docsAfter = docs
    /\ DOMAIN docs \ DOMAIN docsAfter # {} => resp'.op = op /\ resp'.code = 200

\* C9: DELETE of a timesheet, leave or reimbursement removes it if and only
\* if the caller owns it and it is in its initial status; otherwise the
\* answer is 403 and it stays, also for an admin or manager.
C9_DeleteOnlyOwnInitial ==
    [][/\ DeleteOutcome("delete_timesheet", timesheets, timesheets', "draft")
       /\ DeleteOutcome("delete_leave", leaves, leaves', "pending")
       /\ DeleteOutcome("delete_reimbursement", reimbursements, reimbursements', "pending")]_vars

\* A manager was refused the deletion of an employee's pending reimbursement.
C9_ManagerRefused ==
    \E x \in DOMAIN reimbursements :
        /\ resp = Answer("delete_reimbursement", "lead", x, 403)
        /\ users["lead"].role \in AdminOrManager
        /\ reimbursements[x].user_id = "staff"
        /\ reimbursements[x].status = "pending"

\* C10: at most one timesheet per (user_id, week_start).
C10_OneTimesheetPerUserWeek ==
    \A t1, t2 \in DOMAIN timesheets :
        (/\ timesheets[t1].user_id = timesheets[t2].user_id
         /\ timesheets[t1].week_start = timesheets[t2].week_start) => t1 = t2

\* C11: a create_timesheet request of a user who has a timesheet for the
\* week, whatever its status, is answered 400, is not admitted to the insert,
\* and adds no timesheet and changes none.
C11_DuplicateWeekRefused ==
    [][/\ (/\ resp'.op = "create_timesheet"
            /\ inflight' = inflight
            /\ HasTimesheetFor(resp'.caller, resp'.arg))
              => resp'.code = 400 /\ timesheets' = timesheets
       /\ \A q \in BagToSet(inflight') :
              (q.op = "create_timesheet" /\ CopiesIn(q, inflight') > CopiesIn(q, inflight))
                 => ~HasTimesheetFor(q.caller, q.week_start)]_vars

\* A create_timesheet was refused for a week of which the caller's timesheet
\* is already approved.
C11_RefusedOnApproved ==
    /\ resp.op = "create_timesheet"
    /\ resp.code = 400
    /\ \E t \in DOMAIN timesheets :
          /\ timesheets[t].user_id = resp.caller
          /\ timesheets[t].week_start = resp.arg
          /\ timesheets[t].status = "approved"

\* C17: every timesheet, leave and reimbursement that is approved or rejected
\* carries in reviewed_by the id of an admin or manager.
Stamped(docs) ==
    \A d \in DOMAIN docs :
        docs[d].status \in {"approved", "rejected"}
           => /\ docs[d].reviewed_by \in DOMAIN users
              /\ users[docs[d].reviewed_by].role \in AdminOrManager

C17_ReviewStamped ==
    Stamped(timesheets) /\ Stamped(leaves) /\ Stamped(reimbursements)

ReviewOps ==
    {"approve_timesheet", "reject_timesheet", "approve_leave", "reject_leave",
     "approve_reimbursement", "reject_reimbursement"}

\* C18: an approve or reject that has reached its notification is answered
\* 200 and leaves the status and the reviewer it wrote in place, whether the
\* dispatch succeeds, fails or is skipped; the answering step of approve_leave
\* leaves the deducted balance as it is.
C18_DispatchNeverFailsRequest ==
    [][(resp'.op \in ReviewOps /\ resp'.arg \in MailOutcomes) =>
         LET op == resp'.op
             docs == IF op \in {"approve_timesheet", "reject_timesheet"} THEN timesheets'
                     ELSE IF op \in {"approve_leave", "reject_leave"} THEN leaves'
                     ELSE reimbursements'
             status == IF op \in {"approve_timesheet", "approve_leave",
                                   "approve_reimbursement"}
                       THEN "approved" ELSE "rejected"
         IN /\ resp'.code = 200
            /\ resp'.id \in DOMAIN docs
            /\ docs[resp'.id].status = status
            /\ docs[resp'.id].reviewed_by = resp'.caller
            /\ op = "approve_leave" => users' = users]_vars

\* A leave was approved while the dispatch of its email failed: the answer is
\* 200, the leave is approved and the days are deducted.
C18_FailedDispatchApproved ==
    \E l \in DOMAIN leaves :
        /\ resp.op = "approve_leave" /\ resp.id = l
        /\ resp.arg = "failed"
        /\ resp.code = 200
        /\ leaves[l].status = "approved"
        /\ leaves[l].reviewed_by = resp.caller
        /\ approvals[l].success = 1
        /\ users[leaves[l].user_id].leave_balance =
               Population[leaves[l].user_id].leave_balance - leaves[l].days

\* C12: no two user records have the same email.
C12_EmailUnique ==
    \A u1, u2 \in DOMAIN users : users[u1].email = users[u2].email => u1 = u2

\* C14: PUT /users/{id} by a manager removes and adds no user and changes no
\* field of any user other than leave_balance.
C14_ManagerChangesOnlyBalance ==
    [][(resp'.op = "update_user" /\ users[resp'.caller].role = "manager") =>
         /\ DOMAIN users' = DOMAIN users
         /\ \A u \in DOMAIN users :
               \A f \in DOMAIN users[u] \ {"leave_balance"} :
                   users'[u][f] = users[u][f]]_vars

\* A manager's PUT with a role and a leave_balance was answered 200: the
\* target has the balance of the body and the role it had.
C14_ManagerSetBalanceOnly ==
    /\ resp.op = "update_user"
    /\ resp.code = 200
    /\ resp.body = "role+leave_balance"
    /\ resp.caller \in DOMAIN users
    /\ users[resp.caller].role = "manager"
    /\ resp.arg = "staff"
    /\ resp.arg \in DOMAIN users
    /\ users[resp.arg].leave_balance = UserUpdates[resp.body].leave_balance
    /\ users[resp.arg].role = "employee"
    /\ users[resp.arg].role # UserUpdates[resp.body].role

\* The role-gated operations and their allow-lists as the specification
\* lists them.
AdminGated == {"create_user", "delete_user"}

ReviewerGated ==
    {"get_users", "update_user", "create_project", "update_project", "delete_project",
     "approve_timesheet", "reject_timesheet", "approve_leave", "reject_leave",
     "approve_reimbursement", "reject_reimbursement",
     "get_invoices", "create_invoice", "update_invoice", "delete_invoice",
     "get_timesheet_summary", "get_project_hours", "export_timesheets_csv",
     "export_leaves_csv"}

StoredUnchanged ==
    /\ users' = users
    /\ timesheets' = timesheets
    /\ leaves' = leaves
    /\ reimbursements' = reimbursements

\* C15: a request to a role-gated operation with a valid token of a user
\* whose role is not in the operation's allow-list is answered 403 and
\* changes no stored state.
C15_WrongRoleRefused ==
    [][(/\ resp'.op \in AdminGated \cup ReviewerGated
        /\ resp'.auth = "valid"
        /\ resp'.caller \in DOMAIN users
        /\ users[resp'.caller].role \notin
               (IF resp'.op \in AdminGated THEN AdminOnly ELSE AdminOrManager))
          => resp'.code = 403 /\ StoredUnchanged]_vars

\* A manager was refused delete_user.
C15_ManagerRefusedDelete ==
    /\ resp.op = "delete_user"
    /\ resp.code = 403
    /\ resp.auth = "valid"
    /\ resp.caller \in DOMAIN users
    /\ users[resp.caller].role = "manager"

\* C16: a request to a protected operation whose token is missing,
\* malformed, wrongly signed or expired, or whose subject has no user record,
\* is answered 401 and changes no stored state.
C16_UnauthenticatedRefused ==
    [][(/\ resp'.op \in DOMAIN Routes
        /\ \/ resp'.auth \in InvalidTokens
           \/ resp'.auth = "valid" /\ resp'.caller \notin DOMAIN users)
          => resp'.code = 401 /\ StoredUnchanged]_vars

\* C19: a login with credentials no user has is answered 401 with the one
\* body of invalid credentials, whether the email is unknown or the password
\* wrong, and changes nothing.
C19_InvalidLoginUniform ==
    [][resp'.op = "login" =>
         LET a == resp'.arg
             accepted == \E u \in DOMAIN users :
                            /\ users[u].email = a.email
                            /\ Verify(a.password, users[u].password)
         IN ~accepted => /\ resp'.code = 401
                         /\ resp'.body = InvalidCredentials
                         /\ users' = users]_vars

\* A login with the email of a user and a wrong password was refused.
C19_WrongPasswordRefused ==
    /\ resp.op = "login"
    /\ resp.code = 401
    /\ resp.body = InvalidCredentials
    /\ \E u \in DOMAIN users :
          users[u].email = resp.arg.email /\ ~Verify(resp.arg.password, users[u].password)

\* C20: login with the email and the password of a stored user answers with
\* a token for that user's id and that user without the password, and
\* GET /auth/me with a token answers with the record of its subject without
\* the password.
C20_LoginResolvesToSameUser ==
    [][/\ resp'.op = "login" =>
            \A u \in DOMAIN users :
                (/\ users[u].email = resp'.arg.email
                 /\ Verify(resp'.arg.password, users[u].password))
                   => /\ resp'.code = 200
                      /\ resp'.body.sub = u
                      /\ resp'.body.user = Public(users[u])
       /\ (resp'.op = "get_me" /\ resp'.code = 200)
            => resp'.body = Public(users[resp'.caller])]_vars

\* C13: a list of timesheets, leaves or reimbursements holds for an employee
\* exactly the stored documents whose user_id is the caller, and for an admin
\* or manager every stored document.
C13_ListScoped ==
    [][\A op \in DOMAIN Collections :
          resp'.op = op => resp'.body = Listed(resp'.caller, Collections[op])]_vars

\* C22: every stored reimbursement is pending, approved or rejected, and a
\* reimbursement just created is pending and owned by the caller.
C22_ReimbursementStatuses ==
    [][/\ \A x \in DOMAIN reimbursements' :
             reimbursements'[x].status \in {"pending", "approved", "rejected"}
       /\ (resp'.op = "create_reimbursement" /\ resp'.code = 200)
             => /\ resp'.id \notin DOMAIN reimbursements
                /\ resp'.id \in DOMAIN reimbursements'
                /\ reimbursements'[resp'.id].status = "pending"
                /\ reimbursements'[resp'.id].user_id = resp'.caller]_vars

\* A reimbursement was created by the employee and approved by the manager.
C22_CreatedThenApproved ==
    /\ resp.op = "approve_reimbursement" /\ resp.code = 200
    /\ resp.id \in DOMAIN reimbursements
    /\ reimbursements[resp.id].user_id = "staff"
    /\ reimbursements[resp.id].status = "approved"

\* Days of the leaves of user u among S that are stored as approved.
RECURSIVE DaysApproved(_, _)
DaysApproved(u, S) ==
    IF S = {} THEN 0
    ELSE LET l == CHOOSE x \in S : TRUE
         IN (IF leaves[l].user_id = u /\ leaves[l].status = "approved"
             THEN leaves[l].days
             ELSE 0) + DaysApproved(u, S \ {l})

\* C26: while no approve_leave request is between its steps, each user's
\* leave_balance is the initial one minus the days of that user's leaves
\* stored as approved (no PUT /users takes part).
C26_BalanceMatchesApprovedLeaves ==
    InflightOf("approve_leave") = {} =>
        \A u \in DOMAIN users :
            users[u].leave_balance =
                Population[u].leave_balance - DaysApproved(u, DOMAIN leaves)

\* C27: an approve_leave request answered 404 or 500 has deducted nothing:
\* its answer changes no leave_balance, and the request is not one that made
\* its deduction at an earlier step.
C27_ErrorLeavesBalances ==
    [][(resp'.op = "approve_leave" /\ resp'.code \in {404, 500})
          => /\ BalanceChanged = {}
             /\ \A r \in InflightOf("approve_leave") :
                    r.pc = "set" => CountIn({r}, inflight') = CountIn({r}, inflight)]_vars

\* C28: a request with a valid token to a route of the user handlers is
\* refused 403 exactly when the role stored in the subject's record at the
\* time of the request is outside the route's allow-list, whatever role the
\* token was issued with.
C28_StoredRoleDecides ==
    [][(/\ resp'.op \in DOMAIN Routes
        /\ resp'.auth = "valid"
        /\ resp'.caller \in DOMAIN users)
          => (resp'.code = 403 <=> users[resp'.caller].role \notin Routes[resp'.op])]_vars

\* The employee was made admin through PUT /users and the next delete_user
\* request of the employee was carried out.
C28_PromotedEmployeeAdmitted ==
    /\ Population["staff"].role = "employee"
    /\ "staff" \in DOMAIN users
    /\ users["staff"].role = "admin"
    /\ resp.op = "delete_user" /\ resp.caller = "staff" /\ resp.code \in {200, 404}

\* C29: register asks for no token and stores the role of the body as it
\* is, employee when the body has none: the user inserted has that role, and
\* the token of the answer, signed for the new id and that role, is refused
\* by no route whose allow-list holds the role.
C29_RegisterStoresRequestedRole ==
    /\ [][(resp'.op = "register" /\ resp'.code = 200)
          => \E r \in InflightOf("register") :
                /\ inflight' = inflight (-) SetToBag({r})
                /\ r.caller = None
                /\ r.email = resp'.arg
                /\ r.role \in Roles
                /\ resp'.body \notin DOMAIN users
                /\ resp'.body \in DOMAIN users'
                /\ users'[resp'.body].role = r.role]_vars
    /\ []((resp.op = "register" /\ resp.code = 200)
             => \A op \in DOMAIN Routes :
                   users[resp.body].role \in Routes[op] =>
                       RefusalCodes(op, [sub |-> resp.body, kind |-> "valid",
                                         role |-> users[resp.body].role]) = {})

\* A caller without a token has registered an admin.
C29_AdminRegistered ==
    /\ resp.op = "register" /\ resp.code = 200 /\ resp.caller = None
    /\ resp.body \in DOMAIN users
    /\ users[resp.body].role = "admin"
    /\ RefusalCodes("delete_user", [sub |-> resp.body, kind |-> "valid", role |-> "admin"]) = {}

\* C21: PUT /projects/{id} and PUT /invoices/{id} are answered 404 exactly
\* when no project, or invoice, has the id.
C21_NotFoundOnlyWhenAbsent ==
    [][/\ resp'.op = "update_project" => (resp'.code = 404 <=> resp'.id \notin DOMAIN projects)
       /\ resp'.op = "update_invoice" => (resp'.code = 404 <=> resp'.id \notin DOMAIN invoices)
      ]_vars

\* C25: a download with doc_index k-1 for a stored user or project returns
\* the file of the k-th upload answered for it, with the bytes, the filename
\* and the content type that were sent, whatever was uploaded later.
C25_UploadDownloadRoundTrip ==
    [][(/\ resp'.op = "download_document"
        /\ resp'.arg \in DOMAIN uploads
        /\ resp'.id \in 0..(Len(uploads[resp'.arg]) - 1)
        /\ Len(DocumentsOf(resp'.arg)) >= Len(uploads[resp'.arg]))
          => /\ resp'.code = 200
             /\ resp'.body = uploads[resp'.arg][resp'.id + 1]]_vars

\* C30: download_document answers 404 when the entity is absent or has no
\* documents or doc_index is below 0 or not below the number of documents,
\* and a document it returns is the one at position doc_index.
C30_DownloadOnlyValidIndex ==
    [][resp'.op = "download_document"
          => LET docs == DocumentsOf(resp'.arg)
             IN /\ resp'.id \notin 0..(Len(docs) - 1) => resp'.code = 404
                /\ resp'.code = 200
                      => /\ resp'.id \in 0..(Len(docs) - 1)
                         /\ resp'.body.filename = docs[resp'.id + 1].filename
                         /\ B64Encode(resp'.body.content) = docs[resp'.id + 1].data]_vars

\* The approved timesheets of user u.
ApprovedOf(u) ==
    {t \in DOMAIN timesheets : timesheets[t].user_id = u /\ timesheets[t].status = "approved"}

\* C23: the timesheet summary is answered 200 with an entry for exactly the
\* users who have an approved timesheet, holding the sum of total_hours and
\* the number of that user's approved timesheets.
C23_SummaryOfApproved ==
    [][resp'.op = "get_timesheet_summary"
          => /\ resp'.code = 200
             /\ DOMAIN resp'.body = {u \in DOMAIN users : ApprovedOf(u) # {}}
             /\ \A u \in DOMAIN resp'.body :
                   LET hours == [t \in ApprovedOf(u) |-> timesheets[t].total_hours.num]
                   IN /\ resp'.body[u].weeks = Cardinality(ApprovedOf(u))
                      /\ resp'.body[u].total_hours = Sum(hours, ApprovedOf(u))]_vars

\* The hours of one day of an entry as the report is to count them: the
\* number, the number a string spells, and zero for a missing, null or other
\* value.
HoursOrZero(entry, day) ==
    IF day \notin DOMAIN entry THEN 0
    ELSE IF "num" \in DOMAIN entry[day] THEN entry[day].num
    ELSE IF "str" \in DOMAIN entry[day] /\ entry[day].str \in DOMAIN Numerals
    THEN Numerals[entry[day].str]
    ELSE 0

\* The entries of approved timesheets with project code code, as
\* <<timesheet, position>>.
ApprovedEntries(code) ==
    { e \in (DOMAIN timesheets) \X (1..2) :
        /\ timesheets[e[1]].status = "approved"
        /\ e[2] <= Len(timesheets[e[1]].entries)
        /\ "project_code" \in DOMAIN timesheets[e[1]].entries[e[2]]
        /\ timesheets[e[1]].entries[e[2]].project_code = Str(code) }

\* C24: the project hours report is answered 200 with, for each non-empty
\* project code of an entry of an approved timesheet, the sum of the five
\* days over these entries, a missing, null or non-numeric day counting zero.
C24_ProjectHoursOfApproved ==
    [][resp'.op = "get_project_hours"
          => /\ resp'.code = 200
             /\ DOMAIN resp'.body = {code \in {"P1", "P2"} : ApprovedEntries(code) # {}}
             /\ \A code \in DOMAIN resp'.body :
                   LET daily ==
                           [e \in ApprovedEntries(code) |->
                              Sum([d \in WeekDays |->
                                     HoursOrZero(timesheets[e[1]].entries[e[2]], d)], WeekDays)]
                   IN resp'.body[code] = Sum(daily, ApprovedEntries(code))]_vars

=========================================================================
